---- MODULE Spec2Model ----
(***************************************************************************)
(* Model of the in-memory indexes of revealer: Clues (src/src/clues.rs)    *)
(* and Locations (src/src/locations.rs).  A bevy HashMap is a function on  *)
(* a finite domain; a Vec is a sequence; an Option is a sequence of length *)
(* 0 (None) or 1 (Some).  The iteration order of a HashMap is not          *)
(* specified by the library, so every loop over one takes an arbitrary     *)
(* permutation of its keys.                                                *)
(***************************************************************************)
EXTENDS Naturals, Sequences, FiniteSets

VARIABLES
    asset,          \* which loader owns the asset: ".clues.yml" or ".locations.yml"
    clues_file,     \* the clues given to the index so far, in order (CluesFile.clues)
    clues,          \* the Clues struct: [clues, by_person, by_location]
    clue_muts,      \* writes made through Clues::get_mut since the index was built
    loc_file,       \* the drafts the Locations index was built from (LocationsFile.locations)
    locations,      \* the Locations struct: [locations]
    panicked,       \* Locations::from unwound on unwrap() of None
    loc_muts,       \* writes made through Locations::get_mut since the index was built
    rebuilt         \* a second Locations::from of the same loc_file

vars == <<asset, clues_file, clues, clue_muts, loc_file, locations, panicked,
          loc_muts, rebuilt>>

clueVars == <<clues_file, clues, clue_muts>>
locVars == <<loc_file, locations, panicked, loc_muts, rebuilt>>

----------------------------------------------------------------------------
(* Bounds and the small universes the inputs are drawn from.               *)

MaxRefs == 2
MaxClues == 2
MaxDrafts == 2
MaxMutations == 1

PersonIds == {"alice", "bob"}
ClueIds == {"c1", "c2"}
LocationIds == {"castle", "tower"}
Informations == {"..."}
Names == {"n"}

ClueExt == ".clues.yml"
LocationExt == ".locations.yml"

SeqsUpTo(S, n) == UNION {[1..k -> S] : k \in 0..n}

Range(s) == {s[i] : i \in DOMAIN s}

Perms(S) == {f \in [1..Cardinality(S) -> S] : \A x \in S : \E i \in DOMAIN f : f[i] = x}

----------------------------------------------------------------------------
(* HashMap and Option helpers.                                             *)

EmptyMap == [k \in {} |-> <<>>]

\* HashMap::insert(k, v)
Put(m, k, v) == [x \in (DOMAIN m) \cup {k} |-> IF x = k THEN v ELSE m[x]]

\* HashMap::get(k): Option
MapGet(m, k) == IF k \in DOMAIN m THEN <<m[k]>> ELSE <<>>

\* map.get(k).into_iter().flatten(): the Vec under k, or nothing
Flatten(m, k) == IF k \in DOMAIN m THEN m[k] ELSE <<>>

\* match m.get_mut(k) { Some(v) => v.push(id), None => m.insert(k, vec![id]) }
PushOrInsert(m, k, id) ==
    IF k \in DOMAIN m THEN [m EXCEPT ![k] = Append(@, id)] ELSE Put(m, k, <<id>>)

\* for k in keys { push-or-insert id under k }
RECURSIVE PushAll(_, _, _)
PushAll(m, keys, id) ==
    IF keys = <<>> THEN m
    ELSE PushAll(PushOrInsert(m, Head(keys), id), Tail(keys), id)

----------------------------------------------------------------------------
(* Clues                                                                   *)

Clue == [id : ClueIds,
         locations : SeqsUpTo(LocationIds, MaxRefs),
         persons : SeqsUpTo(PersonIds, MaxRefs),
         information : Informations]

CluesFile == SeqsUpTo(Clue, MaxClues)

\* Clues::new()
Clues_new == [clues |-> EmptyMap, by_person |-> EmptyMap, by_location |-> EmptyMap]

\* a slip: the primary record is not stored
insert_nostore(self, clue) ==
    [clues |-> self.clues,
     by_person |-> PushAll(self.by_person, clue.persons, clue.id),
     by_location |-> PushAll(self.by_location, clue.locations, clue.id)]

\* a slip: the id is pushed to the front of each reverse-lookup sequence
RECURSIVE PushFrontAll(_, _, _)
PushFrontAll(m, keys, id) ==
    IF keys = <<>> THEN m
    ELSE PushFrontAll(Put(m, Head(keys), <<id>> \o Flatten(m, Head(keys))), Tail(keys), id)

insert_front(self, clue) ==
    [clues |-> Put(self.clues, clue.id, clue),
     by_person |-> PushFrontAll(self.by_person, clue.persons, clue.id),
     by_location |-> PushFrontAll(self.by_location, clue.locations, clue.id)]

\* a slip: a re-inserted id first has its old reverse-lookup entries removed
Without(m, id) == [k \in DOMAIN m |-> SelectSeq(m[k], LAMBDA x : x # id)]

insert_dedup(self, clue) ==
    [clues |-> Put(self.clues, clue.id, clue),
     by_person |-> PushAll(Without(self.by_person, clue.id), clue.persons, clue.id),
     by_location |-> PushAll(Without(self.by_location, clue.id), clue.locations, clue.id)]

\* a slip: the persons are indexed, the locations are forgotten
insert_nolocs(self, clue) ==
    [clues |-> Put(self.clues, clue.id, clue),
     by_person |-> PushAll(self.by_person, clue.persons, clue.id),
     by_location |-> self.by_location]

\* Clues::insert
insert(self, clue) ==
    [clues |-> Put(self.clues, clue.id, clue),
     by_person |-> PushAll(self.by_person, clue.persons, clue.id),
     by_location |-> PushAll(self.by_location, clue.locations, clue.id)]

\* impl From<CluesFile> for Clues: insert every clue of the file, in order
RECURSIVE InsertAll(_, _)
InsertAll(self, file) ==
    IF file = <<>> THEN self ELSE InsertAll(insert(self, Head(file)), Tail(file))

Clues_from(file) == InsertAll(Clues_new, file)

\* a slip: the record is found by its id field instead of by its key
get_by_field(self, clue) ==
    LET hits == {k \in DOMAIN self.clues : self.clues[k].id = clue}
    IN  IF hits = {} THEN <<>> ELSE <<self.clues[CHOOSE k \in hits : TRUE]>>

\* Clues::get
get(self, clue) == MapGet(self.clues, clue)

\* .filter_map(|id| self.clues.get(id))
RECURSIVE Resolve(_, _)
Resolve(self, ids) ==
    IF ids = <<>> THEN <<>>
    ELSE get(self, Head(ids)) \o Resolve(self, Tail(ids))

\* Clues::get_by_location
get_by_location(self, location) == Resolve(self, Flatten(self.by_location, location))

\* Clues::get_by_person
get_by_person(self, person) == Resolve(self, Flatten(self.by_person, person))

\* a slip: the location sequence drives the iteration
get_by_person_and_location_swapped(self, person, location) ==
    LET people == Flatten(self.by_person, person)
        locs == Flatten(self.by_location, location)
    IN  Resolve(self, SelectSeq(locs, LAMBDA c : c \in Range(people)))

\* Clues::get_by_person_and_location
get_by_person_and_location(self, person, location) ==
    LET people == Flatten(self.by_person, person)
        locs == Flatten(self.by_location, location)
    IN  Resolve(self, SelectSeq(people, LAMBDA c : c \in Range(locs)))

\* Clues::get_mut: the record a caller may then write through
get_mut(self, clue) == MapGet(self.clues, clue)

\* what a caller can do with the &mut Clue: rewrite one of its public fields
ClueWrites(old) ==
    {[old EXCEPT !.persons = p] : p \in SeqsUpTo(PersonIds, MaxRefs)}
    \cup {[old EXCEPT !.locations = l] : l \in SeqsUpTo(LocationIds, MaxRefs)}
    \cup {[old EXCEPT !.id = i] : i \in ClueIds}

----------------------------------------------------------------------------
(* Locations                                                               *)

NoInfo == <<>>

LocationDeser == [id : LocationIds,
                  name : Names,
                  parent_locations : SeqsUpTo(LocationIds, MaxRefs),
                  info : {NoInfo}]

LocationsFile == SeqsUpTo(LocationDeser, MaxDrafts)

\* Locations::new()
Locations_new == [locations |-> EmptyMap]

\* the Location made from a draft, children not yet computed
Draft(location) ==
    [id |-> location.id,
     name |-> location.name,
     parent_locations |-> location.parent_locations,
     children_locations |-> <<>>,
     info |-> location.info]

\* first loop of Locations::from: add all the locations
RECURSIVE AddAll(_, _)
AddAll(locs, file) ==
    IF file = <<>> THEN locs
    ELSE AddAll(Put(locs, Head(file).id, Draft(Head(file))), Tail(file))

\* second loop: for (id, location) in &locations.locations, in the map's order
RECURSIVE CollectChildren(_, _, _)
CollectChildren(locs, order, children) ==
    IF order = <<>> THEN children
    ELSE CollectChildren(locs, Tail(order),
                         PushAll(children, locs[Head(order)].parent_locations, Head(order)))

\* HashMap::remove(k)
Remove(m, k) == [x \in (DOMAIN m) \ {k} |-> m[x]]

\* third loop: location.children_locations = children_locations.remove(id).unwrap()
RECURSIVE AssignChildren(_, _, _)
AssignChildren(locs, order, children) ==
    IF order = <<>> THEN [panicked |-> FALSE, locations |-> locs]
    ELSE IF Head(order) \notin DOMAIN children
         THEN [panicked |-> TRUE, locations |-> EmptyMap]
         ELSE AssignChildren([locs EXCEPT ![Head(order)].children_locations = children[Head(order)]],
                             Tail(order), Remove(children, Head(order)))

\* impl From<LocationsFile> for Locations; order is the HashMap's iteration order
Locations_from(file, order) ==
    LET locs == AddAll(EmptyMap, file)
    IN  AssignChildren(locs, order, CollectChildren(locs, order, EmptyMap))

\* the ids stored by the first loop, and the orders the map may iterate them in
FileIds(file) == {file[i].id : i \in DOMAIN file}

IterOrders(file) == Perms(FileIds(file))

\* Locations::get
loc_get(self, id) == MapGet(self.locations, id)

\* Locations::get_mut
loc_get_mut(self, id) == MapGet(self.locations, id)

\* .filter_map(|l_id| self.get(l_id))
RECURSIVE LocResolve(_, _)
LocResolve(self, ids) ==
    IF ids = <<>> THEN <<>>
    ELSE loc_get(self, Head(ids)) \o LocResolve(self, Tail(ids))

\* Locations::iter_parents
iter_parents(self, id) ==
    LET l == loc_get(self, id)
    IN  LocResolve(self, IF l = <<>> THEN <<>> ELSE l[1].parent_locations)

\* Locations::iter_children
iter_children(self, id) ==
    LET l == loc_get(self, id)
    IN  LocResolve(self, IF l = <<>> THEN <<>> ELSE l[1].children_locations)

\* what a caller can do with the &mut Location
LocationWrites(old) ==
    {[old EXCEPT !.parent_locations = p] : p \in SeqsUpTo(LocationIds, MaxRefs)}
    \cup {[old EXCEPT !.children_locations = c] : c \in SeqsUpTo(LocationIds, MaxRefs)}
    \cup {[old EXCEPT !.id = i] : i \in LocationIds}

NotRebuilt == [built |-> FALSE, panicked |-> FALSE, locations |-> Locations_new]

----------------------------------------------------------------------------
(* The state machine                                                       *)

\* An asset is handled by exactly one of the two loaders, and the two indexes
\* share no state, so a behaviour exercises one of them.
Init ==
    /\ asset \in {ClueExt, LocationExt}
    /\ clues_file = <<>>
    /\ clues = Clues_new
    /\ clue_muts = 0
    /\ loc_file = <<>>
    /\ locations = Locations_new
    /\ panicked = FALSE
    /\ loc_muts = 0
    /\ rebuilt = NotRebuilt

\* CluesAssetLoader::load: parse the file and convert it into a Clues.  The
\* conversion starts from Clues::new(), so it is taken from the empty index.
CluesLoad ==
    /\ asset = ClueExt
    /\ clues_file = <<>>
    /\ clues = Clues_new
    /\ \E file \in CluesFile :
        /\ clues_file' = file
        /\ clues' = Clues_from(file)
    /\ clue_muts' = 0
    /\ UNCHANGED <<asset, locVars>>

\* Clues::insert on the live index; MaxClues caps the clues ever given to it
Insert ==
    /\ asset = ClueExt
    /\ Len(clues_file) < MaxClues
    /\ \E clue \in Clue :
        /\ clues' = insert(clues, clue)
        /\ clues_file' = Append(clues_file, clue)
    /\ UNCHANGED <<asset, clue_muts, locVars>>

\* Clues::get_mut followed by the caller's write; a miss gives None and changes nothing
ClueGetMut ==
    /\ asset = ClueExt
    /\ \E id \in ClueIds :
        \/ /\ get_mut(clues, id) = <<>>
           /\ UNCHANGED vars
        \/ /\ get_mut(clues, id) # <<>>
           /\ clue_muts < MaxMutations
           /\ \E w \in ClueWrites(get_mut(clues, id)[1]) :
                clues' = [clues EXCEPT !.clues[id] = w]
           /\ clue_muts' = clue_muts + 1
           /\ UNCHANGED <<asset, clues_file, locVars>>

\* LocationsAssetLoader::load: parse the file and convert it into a Locations.
\* The conversion starts from Locations::new(); when it panics no index is
\* returned, and locations stays empty with panicked set.
LocationsLoad ==
    /\ asset = LocationExt
    /\ loc_file = <<>>
    /\ locations = Locations_new
    /\ ~panicked
    /\ \E file \in LocationsFile : \E order \in IterOrders(file) :
        LET r == Locations_from(file, order)
        IN  /\ loc_file' = file
            /\ panicked' = r.panicked
            /\ locations' = [locations |-> r.locations]
    /\ loc_muts' = 0
    /\ rebuilt' = NotRebuilt
    /\ UNCHANGED <<asset, clueVars>>

\* the same file converted a second time
LocationsReload ==
    /\ asset = LocationExt
    /\ \E order \in IterOrders(loc_file) :
        LET r == Locations_from(loc_file, order)
        IN  rebuilt' = [built |-> TRUE, panicked |-> r.panicked,
                        locations |-> [locations |-> r.locations]]
    /\ UNCHANGED <<asset, clueVars, loc_file, locations, panicked, loc_muts>>

\* Locations::get_mut followed by the caller's write; a miss gives None and changes nothing
LocGetMut ==
    /\ asset = LocationExt
    /\ ~panicked
    /\ \E id \in LocationIds :
        \/ /\ loc_get_mut(locations, id) = <<>>
           /\ UNCHANGED vars
        \/ /\ loc_get_mut(locations, id) # <<>>
           /\ loc_muts < MaxMutations
           /\ \E w \in LocationWrites(loc_get_mut(locations, id)[1]) :
                locations' = [locations EXCEPT !.locations[id] = w]
           /\ loc_muts' = loc_muts + 1
           /\ UNCHANGED <<asset, clueVars, loc_file, panicked, rebuilt>>

Next ==
    \/ CluesLoad
    \/ Insert
    \/ ClueGetMut
    \/ LocationsLoad
    \/ LocationsReload
    \/ LocGetMut

Spec == Init /\ [][Next]_vars

TypeOK ==
    /\ asset \in {ClueExt, LocationExt}
    /\ clues_file \in CluesFile
    /\ loc_file \in LocationsFile
    /\ panicked \in BOOLEAN
    /\ clue_muts \in 0..MaxMutations
    /\ loc_muts \in 0..MaxMutations

----------------------------------------------------------------------------
(* Vocabulary of the properties                                            *)

\* the ids of a sequence of records, in order
Ids(s) == [i \in DOMAIN s |-> s[i].id]

\* how many times x occurs in the sequence s
Count(s, x) == Cardinality({i \in DOMAIN s : s[i] = x})

\* n copies of x
Copies(n, x) == [j \in 1..n |-> x]

Stored == DOMAIN locations.locations

Loc(id) == locations.locations[id]

\* the stored records that name id as a parent
ChildrenOf(id) == {x \in Stored : id \in Range(Loc(x).parent_locations)}

\* the position of the draft with this id (the last one, which is the one stored)
FilePos(id) == CHOOSE i \in DOMAIN loc_file :
    /\ loc_file[i].id = id
    /\ \A j \in DOMAIN loc_file : loc_file[j].id = id => j <= i

DistinctDrafts == \A i, j \in DOMAIN loc_file : loc_file[i].id = loc_file[j].id => i = j

ScenarioDrafts ==
    << [id |-> "castle", name |-> "n", parent_locations |-> <<>>, info |-> NoInfo],
       [id |-> "tower", name |-> "n", parent_locations |-> <<"castle">>, info |-> NoInfo] >>

ScenarioClues ==
    << [id |-> "c1", persons |-> <<"alice">>, locations |-> <<"castle">>, information |-> "..."],
       [id |-> "c2", persons |-> <<"alice">>, locations |-> <<"tower">>, information |-> "..."] >>

----------------------------------------------------------------------------
(* Locations: construction                                                 *)

\* C1: constructing a Locations from any sequence of drafts never faults, and
\* every stored location that no stored record names as a parent has
\* children_locations equal to the empty sequence.
C1_NeverFaults ==
    /\ ~panicked
    /\ loc_muts = 0 =>
        \A id \in Stored : ChildrenOf(id) = {} => Loc(id).children_locations = <<>>

\* C2: immediately after construction every draft is stored and, for every
\* stored location L, children_locations holds exactly the ids of the stored
\* records whose parent_locations contains L.id; for the drafts
\* [castle, tower with parent castle] iter_children(castle) = [tower],
\* iter_parents(tower) = [castle] and iter_children(tower) is empty.
C2_ChildrenAreDerived ==
    loc_muts = 0 =>
        /\ Stored = FileIds(loc_file)
        /\ \A id \in Stored : Range(Loc(id).children_locations) = ChildrenOf(id)
        /\ loc_file = ScenarioDrafts =>
            /\ Ids(iter_children(locations, "castle")) = <<"tower">>
            /\ Ids(iter_parents(locations, "tower")) = <<"castle">>
            /\ iter_children(locations, "tower") = <<>>

\* C3: after construction iter_children(id) yields the children in the order
\* their drafts have in the file.
C3_ChildrenInFileOrder ==
    (~panicked /\ loc_muts = 0 /\ DistinctDrafts) =>
        \A id \in Stored :
            LET r == Ids(iter_children(locations, id))
            IN  \A i, j \in DOMAIN r : i < j => FilePos(r[i]) <= FilePos(r[j])

\* C4: building twice from the same input gives the same by_person and
\* by_location tables and the same children_locations sequences.
C4_Deterministic ==
    /\ clues.by_person = Clues_from(clues_file).by_person
    /\ clues.by_location = Clues_from(clues_file).by_location
    /\ (rebuilt.built /\ loc_muts = 0) =>
        /\ rebuilt.panicked = panicked
        /\ DOMAIN rebuilt.locations.locations = Stored
        /\ \A id \in Stored :
            rebuilt.locations.locations[id].children_locations = Loc(id).children_locations

----------------------------------------------------------------------------
(* Clues                                                                   *)

Primary == clues.clues

\* the ids and the references of everything given to the index so far
InsertedIds == {clues_file[i].id : i \in DOMAIN clues_file}

InsertedPersons == UNION {Range(clues_file[i].persons) : i \in DOMAIN clues_file}

InsertedLocations == UNION {Range(clues_file[i].locations) : i \in DOMAIN clues_file}

\* the id of each clue of the file, once per occurrence of key in refs(clue)
RECURSIVE RefsTo(_, _, _)
RefsTo(file, refs(_), key) ==
    IF file = <<>> THEN <<>>
    ELSE LET n == Len(file)
         IN  RefsTo(SubSeq(file, 1, n - 1), refs, key)
                 \o Copies(Count(refs(file[n]), key), file[n].id)

PersonsOf(c) == c.persons

LocationsOf(c) == c.locations

\* the positions of the person sequence whose id also occurs in the location sequence
Matches(person, location) ==
    {i \in DOMAIN Flatten(clues.by_person, person) :
        \E j \in DOMAIN Flatten(clues.by_location, location) :
            clues.by_location[location][j] = clues.by_person[person][i]}

\* the k-th smallest element of a set of naturals
Nth(S, k) == CHOOSE i \in S : Cardinality({j \in S : j <= i}) = k

\* C5: after any sequence of inserts, every stored clue is yielded by
\* get_by_person for each of its persons and by get_by_location for each of
\* its locations.
C5_StoredClueIsFound ==
    clue_muts = 0 =>
        \A k \in DOMAIN Primary :
            /\ \A p \in Range(Primary[k].persons) :
                Primary[k] \in Range(get_by_person(clues, p))
            /\ \A l \in Range(Primary[k].locations) :
                Primary[k] \in Range(get_by_location(clues, l))

C5_Witness ==
    /\ clue_muts = 0
    /\ Len(clues_file) = 2
    /\ clues_file[1].id = clues_file[2].id
    /\ clues_file[1].persons = <<"alice">>
    /\ clues_file[2].persons = <<"bob">>
    /\ clues_file[2].locations = <<"castle", "tower">>
    /\ clues_file[2] \in Range(get_by_person(clues, "bob"))
    /\ clues_file[2] \in Range(get_by_location(clues, "tower"))

\* C6: get_by_person_and_location(p, l) yields, in the order of p's
\* reverse-lookup sequence, one clue per entry of that sequence whose id also
\* occurs in l's sequence, and so by id a subset of what get_by_person(p) and
\* get_by_location(l) yield.
C6_PersonAndLocation ==
    \A p \in PersonIds, l \in LocationIds :
        LET r == get_by_person_and_location(clues, p, l)
            M == Matches(p, l)
        IN  /\ Len(r) = Cardinality(M)
            /\ \A k \in DOMAIN r : r[k] = Primary[clues.by_person[p][Nth(M, k)]]
            /\ Range(Ids(r)) \subseteq
                   Range(Ids(get_by_person(clues, p))) \cap Range(Ids(get_by_location(clues, l)))

\* a duplicate in the person sequence duplicates the result, one in the
\* location sequence does not, and an entry missing from it is left out
C6_Witness ==
    /\ clue_muts = 1
    /\ Flatten(clues.by_person, "alice") = <<"c1", "c1", "c2">>
    /\ Flatten(clues.by_location, "castle") = <<"c1", "c1">>
    /\ Len(get_by_person_and_location(clues, "alice", "castle")) = 2

\* C7: after construction from a file each reverse-lookup sequence lists the
\* clue ids in the order of the file, once per reference of the clue to that
\* person or location, and get_by_person and get_by_location yield the clues
\* in that order; for the clues [c1 (alice, castle), c2 (alice, tower)]
\* get_by_person(alice) = [c1, c2] and
\* get_by_person_and_location(alice, castle) = [c1].
C7_InsertionOrder ==
    /\ DOMAIN clues.by_person = InsertedPersons
    /\ DOMAIN clues.by_location = InsertedLocations
    /\ \A p \in InsertedPersons : clues.by_person[p] = RefsTo(clues_file, PersonsOf, p)
    /\ \A l \in InsertedLocations : clues.by_location[l] = RefsTo(clues_file, LocationsOf, l)
    /\ clue_muts = 0 =>
        /\ \A p \in PersonIds :
            Ids(get_by_person(clues, p)) = RefsTo(clues_file, PersonsOf, p)
        /\ \A l \in LocationIds :
            Ids(get_by_location(clues, l)) = RefsTo(clues_file, LocationsOf, l)
        /\ clues_file = ScenarioClues =>
            /\ get_by_person(clues, "alice") = ScenarioClues
            /\ get_by_person_and_location(clues, "alice", "castle") = <<ScenarioClues[1]>>

C7_Witness ==
    /\ clues_file = ScenarioClues
    /\ clue_muts = 0
    /\ clues.by_person = [p \in {"alice"} |-> <<"c1", "c2">>]
    /\ Ids(get_by_person(clues, "alice")) = <<"c1", "c2">>

\* C8: a lookup miss is never a fault: an id that was never inserted is absent
\* from get/get_mut and gives an empty sequence in get_by_person,
\* get_by_location, get_by_person_and_location, iter_parents and iter_children,
\* also in an index built from an empty file.
C8_LookupMiss ==
    /\ \A id \in ClueIds \ InsertedIds :
        get(clues, id) = <<>> /\ get_mut(clues, id) = <<>>
    /\ \A p \in PersonIds \ InsertedPersons :
        /\ get_by_person(clues, p) = <<>>
        /\ \A l \in LocationIds : get_by_person_and_location(clues, p, l) = <<>>
    /\ \A l \in LocationIds \ InsertedLocations :
        /\ get_by_location(clues, l) = <<>>
        /\ \A p \in PersonIds : get_by_person_and_location(clues, p, l) = <<>>
    /\ ~panicked =>
        \A id \in LocationIds \ FileIds(loc_file) :
            /\ loc_get(locations, id) = <<>>
            /\ loc_get_mut(locations, id) = <<>>
            /\ iter_parents(locations, id) = <<>>
            /\ iter_children(locations, id) = <<>>

\* a stored clue was renamed, through get_mut, to an id that was never inserted
C8_Witness ==
    /\ clue_muts = 1
    /\ InsertedIds = {"c1"}
    /\ Primary["c1"].id = "c2"
    /\ get(clues, "c2") = <<>>
    /\ get_by_person(clues, "alice") # <<>>
    /\ get_by_person(clues, "bob") = <<>>

\* C9: inserting a clue whose id is already present replaces the primary
\* record, appends the id to the reverse-lookup sequence of each person and
\* location of the new clue, once per reference, removes no earlier entry, and
\* leaves every other reverse-lookup sequence as it was.
C9_Reinsert ==
    [][ (/\ Len(clues_file') = Len(clues_file) + 1
         /\ SubSeq(clues_file', 1, Len(clues_file)) = clues_file
         /\ clues_file'[Len(clues_file')].id \in DOMAIN Primary)
        => LET c == clues_file'[Len(clues_file')]
           IN  /\ DOMAIN clues'.clues = DOMAIN Primary
               /\ clues'.clues[c.id] = c
               /\ \A k \in DOMAIN Primary \ {c.id} : clues'.clues[k] = Primary[k]
               /\ \A p \in PersonIds :
                    /\ Flatten(clues'.by_person, p)
                         = Flatten(clues.by_person, p) \o Copies(Count(c.persons, p), c.id)
                    /\ p \notin Range(c.persons) =>
                         (p \in DOMAIN clues'.by_person <=> p \in DOMAIN clues.by_person)
               /\ \A l \in LocationIds :
                    /\ Flatten(clues'.by_location, l)
                         = Flatten(clues.by_location, l) \o Copies(Count(c.locations, l), c.id)
                    /\ l \notin Range(c.locations) =>
                         (l \in DOMAIN clues'.by_location <=> l \in DOMAIN clues.by_location)
      ]_vars

C9_Witness ==
    /\ Len(clues_file) = 2
    /\ clues_file[1].id = "c1"
    /\ clues_file[2].id = "c1"
    /\ clues_file[1].persons = <<"alice", "bob">>
    /\ clues_file[2].persons = <<"alice">>
    /\ clues.by_person = [p \in {"alice", "bob"} |->
                            IF p = "alice" THEN <<"c1", "c1">> ELSE <<"c1">>]
    /\ Primary["c1"] = clues_file[2]

\* C10: every clue id in a by_person or by_location sequence is a key of the
\* primary storage, so the filter_map of get_by_person, get_by_location and
\* get_by_person_and_location drops nothing.
C10_ReverseIdsResolve ==
    /\ \A p \in DOMAIN clues.by_person : Range(clues.by_person[p]) \subseteq DOMAIN Primary
    /\ \A l \in DOMAIN clues.by_location : Range(clues.by_location[l]) \subseteq DOMAIN Primary
    /\ \A p \in PersonIds : Len(get_by_person(clues, p)) = Len(Flatten(clues.by_person, p))
    /\ \A l \in LocationIds : Len(get_by_location(clues, l)) = Len(Flatten(clues.by_location, l))
    /\ \A p \in PersonIds, l \in LocationIds :
        Len(get_by_person_and_location(clues, p, l)) = Cardinality(Matches(p, l))

\* the id field of a stored, indexed clue was rewritten and the clue still resolves
C10_Witness ==
    /\ clue_muts = 1
    /\ Len(clues_file) = 2
    /\ "c1" \in DOMAIN Primary
    /\ Primary["c1"].id = "c2"
    /\ Flatten(clues.by_person, "alice") = <<"c1", "c2">>
    /\ Len(get_by_person(clues, "alice")) = 2

====
